---- MODULE Spec2Model ----
(***************************************************************************)
(* Model of match.py: merit score of a student, merit-ordered greedy       *)
(* matching of students to capacity-bounded tracks, and the result         *)
(* summary.                                                                *)
(*                                                                         *)
(* Representation choices:                                                 *)
(*   Optional[T]   : << >> is None, <<v>> is the value v                   *)
(*   float         : an exact fraction [num, den] in lowest terms          *)
(*   dict          : a function; iteration follows insertion order         *)
(*   Student       : a record; the field id is the object's identity (its  *)
(*                   position in the input list), names are not modelled   *)
(*   raised errors : error = "ZeroDivisionError" / "IndexError",           *)
(*                   pc = "crashed"                                        *)
(***************************************************************************)
EXTENDS Integers, Sequences, FiniteSets, TLC

\* ---------------------------------------------------------------- bounds
MaxStudents == 3
MaxCapacity == 2
MaxGrade == 2
MaxWishes == 3

\* ---------------------------------------------------------------- values
None == << >>
Some(v) == <<v>>

\* Track names of the capacity table
Tracks == {"A", "B"}

\* Semester labels a grade dict may use; S9 is not in the weight table
AllSemesters == <<"S5", "S6", "S7", "S8", "S9">>

get_semester_weights == [S5 |-> 1, S6 |-> 1, S7 |-> 2, S8 |-> 2]

VARIABLES
    student_list,        \* input of match_students
    track_capacities,    \* input of match_students / print_results
    pc,                  \* position in main / match_students
    sorted_student_list, \* local of match_students
    track_count,         \* local of match_students
    match_list,          \* local, then result, of match_students
    idx,                 \* position of the for loop in sorted_student_list
    alerts,              \* ids of the students of the "Aucun parcours" lines
    processed,           \* ids of the students in the order they were handled
    report,              \* lines printed by print_results
    error,               \* exception raised, "" when none
    run,                 \* number of the current call of match_students
    first_match_list,    \* result of the first call
    grade_list,          \* Student under construction: its grade dict
    avg_grade,           \* Student under construction: computed average
    grade_alerts         \* Student under construction: alert lines printed

vars == <<student_list, track_capacities, pc, sorted_student_list, track_count,
          match_list, idx, alerts, processed, report, error, run,
          first_match_list, grade_list, avg_grade, grade_alerts>>

allocVars == <<student_list, track_capacities, sorted_student_list, track_count,
               match_list, idx, alerts, processed, report, run, first_match_list>>

scoreVars == <<grade_list, avg_grade, grade_alerts>>

\* ------------------------------------------------------------ arithmetic
RECURSIVE GCD(_, _)
GCD(a, b) == IF b = 0 THEN a ELSE GCD(b, a % b)

ZeroDivisionError == [raised |-> "ZeroDivisionError"]

Zero == [num |-> 0, den |-> 1]

\* a / b on non-negative numbers, exact
Divide(a, b) ==
    IF b = 0 THEN ZeroDivisionError
    ELSE LET g == GCD(a, b) IN [num |-> a \div g, den |-> b \div g]

\* x < y on fractions
Less(x, y) == x.num * y.den < y.num * x.den

\* ------------------------------------------------- Student (lines 30-69)
\* One iteration of the loop of __compute_avg_grade, counting the weight of
\* a semester whether or not its grade is present
AccumulateGradeCountNone(acc, semester, grade) ==
    IF semester \in DOMAIN get_semester_weights
    THEN LET weight == get_semester_weights[semester]
         IN [acc EXCEPT !.weighted_grade_sum =
                            IF grade # None THEN @ + grade[1] * weight ELSE @,
                        !.weight_count = @ + weight]
    ELSE [acc EXCEPT !.alerts = @ \cup {semester}]

\* One iteration of the loop of __compute_avg_grade
AccumulateGrade(acc, semester, grade) ==
    IF semester \in DOMAIN get_semester_weights
    THEN IF grade # None
         THEN LET weight == get_semester_weights[semester]
              IN [acc EXCEPT !.weighted_grade_sum = @ + grade[1] * weight,
                             !.weight_count = @ + weight]
         ELSE acc
    ELSE [acc EXCEPT !.alerts = @ \cup {semester}]

\* The loop over grade_list.items(), from the i-th semester label on
RECURSIVE GradeLoop(_, _, _)
GradeLoop(gl, i, acc) ==
    IF i > Len(AllSemesters) THEN acc
    ELSE LET semester == AllSemesters[i]
         IN IF semester \in DOMAIN gl
            THEN GradeLoop(gl, i + 1, AccumulateGrade(acc, semester, gl[semester]))
            ELSE GradeLoop(gl, i + 1, acc)

WeightedGrades(gl) ==
    GradeLoop(gl, 1, [weighted_grade_sum |-> 0, weight_count |-> 0, alerts |-> {}])

\* Student.__compute_avg_grade: the value returned
ComputeAvgGrade(gl) ==
    LET acc == WeightedGrades(gl)
    IN IF acc.weighted_grade_sum > 0
       THEN Divide(acc.weighted_grade_sum, acc.weight_count)
       ELSE Zero

\* Student.__compute_avg_grade: the alert lines printed
ComputeAvgGradeAlerts(gl) ==
    LET acc == WeightedGrades(gl)
    IN acc.alerts \cup (IF acc.weighted_grade_sum > 0 THEN {} ELSE {"Aucune note"})

\* Student(...): the dataclass constructor followed by __post_init__
Student(id, gl, wl) ==
    [id |-> id, grade_list |-> gl, wish_list |-> wl, avg_grade |-> ComputeAvgGrade(gl)]

\* Match(student, track_name, wish_rank)
Match(student, track_name, wish_rank) ==
    [student |-> student, track_name |-> track_name, wish_rank |-> wish_rank]

\* ------------------------------------------ match_student (lines 126-147)
IndexError == "IndexError"

\* student.wish_list[rank], rank counted from 0
WishAt(wish_list, rank) ==
    IF rank + 1 \in 1..Len(wish_list) THEN wish_list[rank + 1] ELSE IndexError

\* The test of a full track, written with > in place of ==
IsFullGreater(tc, capacities, track_name) ==
    tc[track_name] > capacities[track_name]

\* track_count[track_name] == track_capacities[track_name]
IsFull(tc, capacities, track_name) ==
    tc[track_name] = capacities[track_name]

\* The while loop: from (rank, track_name) to the values it ends with
RECURSIVE WishLoop(_, _, _, _, _)
WishLoop(wish_list, tc, capacities, rank, track_name) ==
    IF IsFull(tc, capacities, track_name) /\ rank < Len(wish_list)
    THEN LET next == rank + 1
         IN WishLoop(wish_list, tc, capacities, next,
                     IF next < Len(wish_list) THEN WishAt(wish_list, next)
                     ELSE track_name)
    ELSE [rank |-> rank, track_name |-> track_name]

\* The search started at the second wish
FirstWishSecond(wish_list) == IF Len(wish_list) > 1 THEN 1 ELSE 0

\* rank = 0  # Try first wish
FirstWish(wish_list) == 0

\* The value returned with the rank counted from 0
MatchResultZeroBased(student, rank, track_name) ==
    IF rank < Len(student.wish_list)
    THEN Some(Match(student, track_name, rank))
    ELSE None

\* The value returned with the test on rank left out
MatchResultUnchecked(student, rank, track_name) ==
    Some(Match(student, track_name, rank + 1))

\* The value returned once the loop has ended: Optional[Match]
MatchResult(student, rank, track_name) ==
    IF rank < Len(student.wish_list)
    THEN Some(Match(student, track_name, rank + 1))
    ELSE None

\* match_student: [raised, value]
match_student(student, tc, capacities) ==
    LET rank0 == FirstWish(student.wish_list)
        first == WishAt(student.wish_list, rank0)
    IN IF first = IndexError
       THEN [raised |-> "IndexError", value |-> None]
       ELSE LET end == WishLoop(student.wish_list, tc, capacities, rank0, first)
            IN [raised |-> "",
                value |-> MatchResult(student, end.rank, end.track_name)]

\* ----------------------------------------- match_students (lines 150-173)
\* Insertion in front of the students of equal merit
InsertByMeritBeforeTies(sorted, s) ==
    LET before == {i \in 1..Len(sorted) : Less(s.avg_grade, sorted[i].avg_grade)}
        n == Cardinality(before)
    IN SubSeq(sorted, 1, n) \o <<s>> \o SubSeq(sorted, n + 1, Len(sorted))

\* Insertion of s in a list sorted by merit, best first, behind the students
\* whose merit is at least its own
InsertByMerit(sorted, s) ==
    LET before == {i \in 1..Len(sorted) : ~Less(sorted[i].avg_grade, s.avg_grade)}
        n == Cardinality(before)
    IN SubSeq(sorted, 1, n) \o <<s>> \o SubSeq(sorted, n + 1, Len(sorted))

RECURSIVE SortLoop(_, _, _)
SortLoop(sl, i, sorted) ==
    IF i > Len(sl) THEN sorted ELSE SortLoop(sl, i + 1, InsertByMerit(sorted, sl[i]))

\* A sort that keeps one student per merit value
SortedByMeritOnePerGrade(sl) ==
    LET all == SortLoop(sl, 1, << >>)
        keep == {i \in 1..Len(all) :
                    \A j \in 1..(i - 1) : all[j].avg_grade # all[i].avg_grade}
        F[i \in 0..Len(all)] ==
            IF i = 0 THEN << >>
            ELSE IF i \in keep THEN Append(F[i - 1], all[i]) ELSE F[i - 1]
    IN F[Len(all)]

\* sorted(student_list, key=avg_grade, reverse=True): stable, best first
SortedByMerit(sl) == SortLoop(sl, 1, << >>)

\* Counters carried over from a previous call
InitTrackCountStale(capacities) ==
    IF DOMAIN track_count = DOMAIN capacities THEN track_count
    ELSE [t \in DOMAIN capacities |-> 0]

\* dict.fromkeys(track_capacities.keys(), 0)
InitTrackCount(capacities) == [t \in DOMAIN capacities |-> 0]

\* ------------------------------------------ print_results (lines 217-240)
MatchCount(ml, rank) == Cardinality({i \in 1..Len(ml) : ml[i].wish_rank = rank})

StudentCount(ml, track_name) ==
    Cardinality({i \in 1..Len(ml) : ml[i].track_name = track_name})

\* The lines "Voeu r : n affectation(s) (p %)" printed for ranks 1..last
RECURSIVE WishLines(_, _)
WishLines(ml, last) ==
    IF last = 0 THEN << >>
    ELSE LET match_count == MatchCount(ml, last)
             match_percent == Divide(match_count, Len(ml))
         IN IF match_count > 0
            THEN Append(WishLines(ml, last - 1),
                        [rank |-> last, match_count |-> match_count,
                         match_percent |-> match_percent])
            ELSE WishLines(ml, last - 1)

\* ------------------------------------------------------------- inputs
OptGrades == {None} \cup {Some(g) : g \in 0..MaxGrade}

SemesterSet == {AllSemesters[i] : i \in 1..Len(AllSemesters)}

\* Every grade dict over the semester labels
GradeDicts == UNION {[D -> OptGrades] : D \in SUBSET SemesterSet}

\* The grade dicts of the students of a matching run
RunGradeDicts == {[s \in {"S7"} |-> g] : g \in {None} \cup {Some(v) : v \in 1..MaxGrade}}

WishLists(k) == [1..k -> Tracks]

NoReport == [total |-> 0, wishes |-> << >>, tracks |-> << >>]

Unset == [unset |-> TRUE]

\* State before main calls match_students: the students are built
Init ==
    /\ \E n \in 0..MaxStudents, k \in 1..MaxWishes :
          \E raw \in [1..n -> RunGradeDicts \X WishLists(k)] :
              student_list = [i \in 1..n |-> Student(i, raw[i][1], raw[i][2])]
    /\ track_capacities \in [Tracks -> 0..MaxCapacity]
    /\ pc = "start"
    /\ sorted_student_list = << >>
    /\ track_count = << >>
    /\ match_list = << >>
    /\ idx = 0
    /\ alerts = << >>
    /\ processed = << >>
    /\ report = NoReport
    /\ error = ""
    /\ run = 1
    /\ first_match_list = << >>
    /\ grade_list = << >>
    /\ avg_grade = Unset
    /\ grade_alerts = {}

\* match_students, lines 155-163: sort by merit, counters to 0
SortStudents ==
    /\ pc = "start"
    /\ match_list' = << >>
    /\ sorted_student_list' = SortedByMerit(student_list)
    /\ track_count' = InitTrackCount(track_capacities)
    /\ idx' = 1
    /\ pc' = "loop"
    /\ UNCHANGED <<student_list, track_capacities, alerts, processed, report,
                   error, run, first_match_list, scoreVars>>

\* match_students, lines 165-171: one iteration of the for loop
MatchNext ==
    /\ pc = "loop"
    /\ idx <= Len(sorted_student_list)
    /\ LET student == sorted_student_list[idx]
           res == match_student(student, track_count, track_capacities)
       IN IF res.raised # ""
          THEN /\ error' = res.raised
               /\ pc' = "crashed"
               /\ UNCHANGED <<match_list, track_count, alerts, processed, idx>>
          ELSE /\ processed' = Append(processed, student.id)
               /\ idx' = idx + 1
               /\ UNCHANGED <<pc, error>>
               /\ IF res.value # None
                  THEN LET match == res.value[1]
                       IN /\ match_list' = Append(match_list, match)
                          /\ track_count' =
                                [track_count EXCEPT ![match.track_name] = @ + 1]
                          /\ UNCHANGED alerts
                  ELSE /\ alerts' = Append(alerts, student.id)
                       /\ UNCHANGED <<match_list, track_count>>
    /\ UNCHANGED <<student_list, track_capacities, sorted_student_list, report,
                   run, first_match_list, scoreVars>>

\* match_students, line 173
Return ==
    /\ pc = "loop"
    /\ idx > Len(sorted_student_list)
    /\ pc' = "matched"
    /\ UNCHANGED <<allocVars, error, scoreVars>>

\* print_results(match_list, track_capacities)
PrintResults ==
    /\ pc = "matched"
    /\ LET total_match_count == Len(match_list)
           n_tracks == Cardinality(DOMAIN track_capacities)
       IN IF \E rank \in 1..n_tracks :
                Divide(MatchCount(match_list, rank), total_match_count)
                    = ZeroDivisionError
          THEN /\ error' = "ZeroDivisionError"
               /\ pc' = "crashed"
               /\ report' = [NoReport EXCEPT !.total = total_match_count]
          ELSE /\ report' =
                    [total |-> total_match_count,
                     wishes |-> WishLines(match_list, n_tracks),
                     tracks |-> [t \in DOMAIN track_capacities |->
                                    StudentCount(match_list, t)]]
               /\ pc' = "reported"
               /\ UNCHANGED error
    /\ UNCHANGED <<student_list, track_capacities, sorted_student_list,
                   track_count, match_list, idx, alerts, processed, run,
                   first_match_list, scoreVars>>

\* main calls match_students a second time on the same arguments
Rerun ==
    /\ pc = "matched"
    /\ run = 1
    /\ run' = 2
    /\ first_match_list' = match_list
    /\ alerts' = << >>
    /\ processed' = << >>
    /\ pc' = "start"
    /\ UNCHANGED <<student_list, track_capacities, sorted_student_list,
                   track_count, match_list, idx, report, error, scoreVars>>

Next == SortStudents \/ MatchNext \/ Return \/ PrintResults

Spec == Init /\ [][Next]_vars

NextTwice == SortStudents \/ MatchNext \/ Return \/ Rerun

SpecTwice == Init /\ [][NextTwice]_vars

\* ---------------------------------------------- construction of a Student
InitScore ==
    /\ grade_list \in GradeDicts
    /\ avg_grade = Unset
    /\ grade_alerts = {}
    /\ pc = "new"
    /\ error = ""
    /\ student_list = << >>
    /\ track_capacities = << >>
    /\ sorted_student_list = << >>
    /\ track_count = << >>
    /\ match_list = << >>
    /\ idx = 0
    /\ alerts = << >>
    /\ processed = << >>
    /\ report = NoReport
    /\ run = 1
    /\ first_match_list = << >>

\* Student.__post_init__
PostInit ==
    /\ pc = "new"
    /\ avg_grade' = ComputeAvgGrade(grade_list)
    /\ grade_alerts' = ComputeAvgGradeAlerts(grade_list)
    /\ IF avg_grade' = ZeroDivisionError
       THEN pc' = "crashed" /\ error' = "ZeroDivisionError"
       ELSE pc' = "built" /\ UNCHANGED error
    /\ UNCHANGED <<allocVars, grade_list>>

SpecScore == InitScore /\ [][PostInit]_vars

\* ============================================================ properties
\* Positions in match_list of the Assignments to track t
AssignedTo(t) == {i \in 1..Len(match_list) : match_list[i].track_name = t}

\* Ids of the students that have an Assignment / an alert line
MatchedIds == {match_list[i].student.id : i \in 1..Len(match_list)}

AlertIds == {alerts[i] : i \in 1..Len(alerts)}

\* Position at which student id was handled
Pos(id) == CHOOSE i \in 1..Len(processed) : processed[i] = id

InRun == pc \in {"loop", "matched", "reported", "crashed"}

\* C1: at every point of a run, no track holds more Assignments than its
\* capacity, and the running counter of a track never exceeds its capacity.
C1_CapacityRespected ==
    \A t \in DOMAIN track_capacities :
        /\ Cardinality(AssignedTo(t)) <= track_capacities[t]
        /\ InRun => track_count[t] <= track_capacities[t]

\* A track of positive capacity is filled and a student who asked for it
\* first was sent to a later wish
C1_Witness ==
    /\ pc = "matched"
    /\ \E t \in DOMAIN track_capacities :
          /\ track_capacities[t] > 0
          /\ Cardinality(AssignedTo(t)) = track_capacities[t]
          /\ \E i \in 1..Len(match_list) :
                /\ match_list[i].wish_rank > 1
                /\ match_list[i].student.wish_list[1] = t

\* C2: every Assignment emitted is for the student being processed, names
\* the track at position wish_rank of that student's wish list, that track
\* is not full and every track at an earlier position is full at that moment.
C2_FirstNonFullWish ==
    [][Len(match_list') = Len(match_list) + 1 =>
         LET a == match_list'[Len(match_list')]
             wl == a.student.wish_list
         IN /\ a.student = sorted_student_list[idx]
            /\ a.wish_rank \in 1..Len(wl)
            /\ wl[a.wish_rank] = a.track_name
            /\ track_count[a.track_name] # track_capacities[a.track_name]
            /\ \A r \in 1..(a.wish_rank - 1) :
                  track_count[wl[r]] = track_capacities[wl[r]]
            /\ SubSeq(match_list', 1, Len(match_list)) = match_list]_vars

\* Capacities {A:1, B:1}, two students both wishing A then B
C2_Witness ==
    /\ pc = "matched"
    /\ track_capacities = [A |-> 1, B |-> 1]
    /\ Len(student_list) = 2
    /\ \A i \in 1..2 : /\ Len(student_list[i].wish_list) >= 2
                       /\ student_list[i].wish_list[1] = "A"
                       /\ student_list[i].wish_list[2] = "B"
    /\ Len(match_list) = 2
    /\ match_list[1].track_name = "A" /\ match_list[1].wish_rank = 1
    /\ match_list[2].track_name = "B" /\ match_list[2].wish_rank = 2

\* C3: students are processed by merit, best first, students of equal merit
\* in input order; a student is processed only after every student that
\* precedes it in that order, and its Assignment is emitted and counted
\* before the next student is processed.
C3_MeritOrder ==
    /\ \A i, j \in 1..Len(processed) :
          i < j =>
            LET X == student_list[processed[i]]
                Y == student_list[processed[j]]
            IN /\ ~Less(X.avg_grade, Y.avg_grade)
               /\ X.avg_grade = Y.avg_grade => X.id < Y.id
    /\ \A j \in 1..Len(processed), x \in 1..Len(student_list) :
          LET X == student_list[x]
              Y == student_list[processed[j]]
          IN (Less(Y.avg_grade, X.avg_grade)
                \/ (X.avg_grade = Y.avg_grade /\ x < Y.id))
             => \E i \in 1..(j - 1) : processed[i] = x
    /\ pc = "loop" =>
          /\ Len(match_list) + Len(alerts) = Len(processed)
          /\ \A t \in DOMAIN track_capacities :
                track_count[t] = Cardinality(AssignedTo(t))
    /\ pc = "matched" => Len(processed) = Len(student_list)

\* Input order low, high, low: the second student goes first, then the
\* first, then the third
C3_Witness ==
    /\ pc = "matched"
    /\ Len(student_list) = 3
    /\ Less(student_list[1].avg_grade, student_list[2].avg_grade)
    /\ student_list[1].avg_grade = student_list[3].avg_grade
    /\ processed = <<2, 1, 3>>

\* Every wish of student s names a full track
AllFull(s) ==
    \A r \in 1..Len(s.wish_list) :
        track_count[s.wish_list[r]] = track_capacities[s.wish_list[r]]

\* C4: when every wish of the student being processed names a full track,
\* no Assignment is emitted, no counter changes, no error is raised, the
\* student is reported and the loop moves on; the run returns only after
\* every student has been processed.
C4_AllFullNoAssignment ==
    /\ [][(pc = "loop" /\ idx <= Len(sorted_student_list)
             /\ AllFull(sorted_student_list[idx])) =>
            /\ match_list' = match_list
            /\ track_count' = track_count
            /\ alerts' = Append(alerts, sorted_student_list[idx].id)
            /\ error' = ""
            /\ pc' = "loop"
            /\ idx' = idx + 1]_vars
    /\ [](pc = "matched" =>
            /\ Len(processed) = Len(student_list)
            /\ error = "")

\* A student found every wish full, and a student processed after it was
\* assigned
C4_Witness ==
    /\ pc = "matched"
    /\ \E i \in 1..Len(processed) :
          /\ processed[i] \in AlertIds
          /\ \E j \in (i + 1)..Len(processed) : processed[j] \in MatchedIds

\* Capacities all 0: the run ends with no Assignment
C4_WitnessZeroCapacity ==
    /\ pc = "matched"
    /\ \A t \in DOMAIN track_capacities : track_capacities[t] = 0
    /\ Len(student_list) > 0
    /\ match_list = << >>
    /\ Len(alerts) = Len(student_list)

\* C5: print_results on a run without Assignment completes without error
\* and prints no line for a rank.
C5_NoDivisionByZero ==
    (pc \in {"reported", "crashed"} /\ Len(match_list) = 0) =>
        /\ pc = "reported"
        /\ error = ""
        /\ report.wishes = << >>

\* C6: every Assignment is for a student of the input, no student has two
\* Assignments, no student has both an Assignment and an alert, and after
\* the run Assignments and alerts together number the students of the input.
C6_ZeroOrOneTrack ==
    /\ \A i, j \in 1..Len(match_list) :
          match_list[i].student.id = match_list[j].student.id => i = j
    /\ \A i \in 1..Len(match_list) :
          /\ match_list[i].student.id \in 1..Len(student_list)
          /\ match_list[i].student = student_list[match_list[i].student.id]
    /\ \A i, j \in 1..Len(alerts) : alerts[i] = alerts[j] => i = j
    /\ MatchedIds \cap AlertIds = {}
    /\ pc \in {"matched", "reported", "crashed"} =>
          /\ Len(match_list) + Len(alerts) = Len(student_list)
          /\ MatchedIds \cup AlertIds = 1..Len(student_list)

\* Two students with the same grades and the same wishes, one assigned and
\* the other not
C6_Witness ==
    /\ pc = "matched"
    /\ \E i \in MatchedIds, j \in AlertIds :
          /\ student_list[i].grade_list = student_list[j].grade_list
          /\ student_list[i].wish_list = student_list[j].wish_list

\* Sum of f over the finite set S
RECURSIVE SumOver(_, _)
SumOver(S, f) ==
    IF S = {} THEN 0
    ELSE LET x == CHOOSE y \in S : TRUE IN f[x] + SumOver(S \ {x}, f)

\* The semesters of grade_list that are weighted and have a grade
Usable == {s \in DOMAIN grade_list \cap DOMAIN get_semester_weights :
              grade_list[s] # None}

\* C7: the average of a student is sum(grade * weight) / sum(weight) over
\* the weighted semesters that have a grade when that sum is positive, 0
\* otherwise, and no division by a weight total of 0 takes place.
C7_WeightedAverage ==
    /\ pc # "crashed"
    /\ pc = "built" =>
          LET S == SumOver(Usable, [s \in Usable |->
                                      grade_list[s][1] * get_semester_weights[s]])
              W == SumOver(Usable, [s \in Usable |-> get_semester_weights[s]])
          IN /\ avg_grade # ZeroDivisionError
             /\ IF S > 0
                THEN /\ W > 0
                     /\ avg_grade.den > 0
                     /\ avg_grade.num * W = S * avg_grade.den
                ELSE avg_grade = Zero

\* Grades {S5:1, S6:absent, S7:2, S8:absent} give (1*1 + 2*2) / (1 + 2)
C7_Witness ==
    /\ pc = "built"
    /\ grade_list = [S5 |-> Some(1), S6 |-> None, S7 |-> Some(2), S8 |-> None]
    /\ avg_grade = [num |-> 5, den |-> 3]

\* A grade of a semester without weight and an absent grade leave the
\* average of the other grades unchanged
C7_WitnessUnknownSemester ==
    /\ pc = "built"
    /\ DOMAIN grade_list = {"S6", "S7", "S9"}
    /\ grade_list["S9"] = Some(2)
    /\ grade_list["S7"] = None
    /\ grade_list["S6"] = Some(1)
    /\ avg_grade = [num |-> 1, den |-> 1]

\* C8: a second call of match_students on the same arguments returns the
\* same list of Assignments; a call starts with every counter at 0 and
\* leaves the student list and the capacity table as they were.
C8_Idempotent ==
    /\ []((run = 2 /\ pc = "matched") => match_list = first_match_list)
    /\ []((pc = "loop" /\ idx = 1) =>
            \A t \in DOMAIN track_capacities : track_count[t] = 0)
    /\ [][student_list' = student_list
            /\ track_capacities' = track_capacities]_vars

\* The second call has returned, with Assignments at two ranks and an
\* unassigned student
C8_Witness ==
    /\ run = 2
    /\ pc = "matched"
    /\ Len(alerts) > 0
    /\ \E i, j \in 1..Len(match_list) :
          match_list[i].wish_rank # match_list[j].wish_rank

\* C9: with at least one Assignment, the summary has for every rank of the
\* wish lists that holds Assignments a line with their count and their
\* share, and the counts of the lines sum to the number of Assignments.
C9_EveryRankReported ==
    (pc = "reported" /\ Len(match_list) > 0) =>
        LET K == Len(student_list[1].wish_list)
            lines == report.wishes
        IN /\ \A r \in 1..K :
                 MatchCount(match_list, r) > 0 =>
                    \E l \in 1..Len(lines) :
                        /\ lines[l].rank = r
                        /\ lines[l].match_count = MatchCount(match_list, r)
                        /\ lines[l].match_percent
                              = Divide(MatchCount(match_list, r), Len(match_list))
           /\ SumOver(1..Len(lines), [l \in 1..Len(lines) |-> lines[l].match_count])
                 = Len(match_list)

\* Rank at which student id was assigned, one past its last wish when it
\* was not assigned
RankOf(id) ==
    IF id \in MatchedIds
    THEN (CHOOSE a \in {match_list[i] : i \in 1..Len(match_list)} :
              a.student.id = id).wish_rank
    ELSE Len(student_list[id].wish_list) + 1

\* C10: after the run, a track that a student lists before the rank it was
\* assigned at (anywhere in its list when it is unassigned) holds exactly
\* its capacity of Assignments, each for a student processed earlier and of
\* merit at least equal; during the run no counter decreases.
C10_NoJustifiedEnvy ==
    /\ [](pc = "matched" =>
            \A x \in 1..Len(student_list) :
                \A r \in 1..(RankOf(x) - 1) :
                    LET C == student_list[x].wish_list[r]
                    IN /\ Cardinality(AssignedTo(C)) = track_capacities[C]
                       /\ \A m \in AssignedTo(C) :
                             /\ Pos(match_list[m].student.id) < Pos(x)
                             /\ ~Less(match_list[m].student.avg_grade,
                                      student_list[x].avg_grade))
    /\ [][pc = "loop" =>
            \A t \in DOMAIN track_capacities : track_count'[t] >= track_count[t]]_vars

\* One student is unassigned and another got a wish after its first, with
\* no track of capacity 0
C10_Witness ==
    /\ pc = "matched"
    /\ \A t \in DOMAIN track_capacities : track_capacities[t] > 0
    /\ AlertIds # {}
    /\ \E i \in 1..Len(match_list) : match_list[i].wish_rank > 1

====
